---- MODULE Spec2Model ----
(***************************************************************************)
(* Liquidation ingestion of crypto-macro-suite:                            *)
(*   backend/services/ws_liq.py  the per-symbol buffers _BUFS, the         *)
(*                               consumer _consume_force_orders and the    *)
(*                               query get_heatmap                         *)
(*   backend/routers/liq.py      the ring buffer BUF and liq_consumer      *)
(*   app.py                      the decoding of _ws_thread.on_message     *)
(*                                                                         *)
(* JSON values are tagged records.  The prices and quantities of the feed  *)
(* are whole numbers: a float read from it is a record that is NaN or      *)
(* holds an integer.  The padded range, the bin width and the labels that  *)
(* get_heatmap computes from them are binary64 doubles.                    *)
(***************************************************************************)
EXTENDS Integers, Sequences, FiniteSets, TLC

VARIABLES
    pc,        \* ws_liq consumer: "connecting", "receiving", "backoff", "exited"
    backoff,   \* ws_liq.py:26 the local `backoff`, in seconds
    _BUFS,     \* ws_liq.py:14 symbol -> sequence of <<ts, price, notional, side>>
    now,       \* the wall clock, in ms (time.time() * 1000)
    fails,     \* history: failures since the last successful connect
    got,       \* history: a message was received on the current connection
    last,      \* history: outcome of the step just taken when it handled a message
    sawBad,    \* history: a message whose decoding raises has been received
    lpc,       \* liq.py consumer: "connecting", "receiving", "sleeping", "exited"
    BUF,       \* liq.py:19 sequence of <<ts, symbol, side, price, qty, notional>>
    llast,     \* history: outcome of the liq.py step just taken when it handled a message
    hq,        \* history: the get_heatmap call of the step just taken and its result
    hcall,     \* history: the latest get_heatmap call, its clock reading and its result
    lhq,       \* history: the liq.py heatmap call of the step just taken and its result
    rd,        \* a get_heatmap call in a reader thread, in the scan of line 102
    sb,        \* ws_liq.py:16 _ws_task_started, the consumer threads, the callers
    stopReq    \* a cancellation of the consumer has been requested

vars == <<pc, backoff, _BUFS, now, fails, got, last, sawBad, lpc, BUF, llast, hq,
          hcall, lhq, rd, sb, stopReq>>

wsVars  == <<pc, backoff, _BUFS, fails, got, last, sawBad>>
liqVars == <<lpc, BUF, llast>>
\* what the steps of the two consumers leave alone
auxVars == <<hcall, lhq, rd, sb, stopReq>>

(***************************************************************************)
(* Bounds of the model.                                                    *)
(***************************************************************************)
\* deque(maxlen=20000) of ws_liq.py:14, scaled down
BufMaxLen == 2
\* deque(maxlen=200000) of liq.py:19, scaled down
RingMaxLen == 2
\* the clock advances at most this many minutes
MaxTicks == 1
\* the history counter `fails` saturates here
MaxFails == 8
\* the buffers get_heatmap is queried on hold at most this many prints
HeatMaxItems == 3
\* the threads that call start_liq_buffer
MaxCallers == 2

Callers == 1..MaxCallers

(***************************************************************************)
(* Program constants.                                                      *)
(***************************************************************************)
BACKOFF_BASE == 1
BACKOFF_CAP == 30
MINUTE_MS == 60000
BUFFER_SECS == 3600

Min(a, b) == IF a <= b THEN a ELSE b
Max(a, b) == IF a >= b THEN a ELSE b

RECURSIVE Pow2(_)
Pow2(n) == IF n = 0 THEN 1 ELSE 2 * Pow2(n - 1)

(***************************************************************************)
(* The clock.  The first instant is two retention periods after the epoch  *)
(* so that a feed timestamp can be older than the retention period.        *)
(***************************************************************************)
NowStart == 2 * BUFFER_SECS * 1000
T_RECENT == NowStart - 1000
T_OLD    == NowStart - BUFFER_SECS * 1000 - MINUTE_MS
T_PREV   == NowStart - MINUTE_MS - 1000
T_FUTURE == NowStart + (MaxTicks + 1) * MINUTE_MS

(***************************************************************************)
(* The value dict.get(key) finds: a number, a string, null (a key that is  *)
(* present with the value null), or Absent (the key is missing).  Without  *)
(* a default dict.get gives None for null and for Absent alike.            *)
(***************************************************************************)
Num(n) == [t |-> "num", n |-> n, s |-> ""]
Str(s) == [t |-> "str", n |-> 0, s |-> s]
Null   == [t |-> "null", n |-> 0, s |-> ""]
Absent == [t |-> "absent", n |-> 0, s |-> ""]

\* Python truthiness of a JSON scalar: None, 0 and "" are falsy
Truthy(v) == \/ v.t = "num" /\ v.n # 0
             \/ v.t = "str" /\ v.s # ""

\* `a or b`
Or(a, b) == IF Truthy(a) THEN a ELSE b

\* the Python value of a JSON scalar where the model keeps text: a string is
\* itself, null and a missing key are None, and the number n is written
\* "int:n" (no text of the feed begins so)
PyValue(v) ==
    IF v.t = "str" THEN v.s
    ELSE IF v.t = "num" THEN "int:" \o ToString(v.n)
    ELSE "None"

\* dict.get(key, default): the default stands in for a missing key only; a
\* key that is present with the value null gives None
GetDefault(v, d) == IF v.t = "absent" THEN d ELSE v

(***************************************************************************)
(* Python floats: finite values are exact integers, NaN is its own value.  *)
(* Every comparison with NaN is false.                                     *)
(***************************************************************************)
Fin(n) == [nan |-> FALSE, v |-> n]
NaN    == [nan |-> TRUE, v |-> 0]

FMul(a, b) == IF a.nan \/ b.nan THEN NaN ELSE Fin(a.v * b.v)
FLe0(a)    == ~a.nan /\ a.v <= 0
FGt0(a)    == ~a.nan /\ a.v > 0
FLt(a, b)  == ~a.nan /\ ~b.nan /\ a.v < b.v
FLe(a, b)  == ~a.nan /\ ~b.nan /\ a.v <= b.v

\* The numeric literals the modelled feed carries, as float() reads them.
FloatText(s) ==
    CASE s = "0"   -> Fin(0)
      [] s = "0.0" -> Fin(0)
      [] s = "0.00" -> Fin(0)
      [] s = "-1"  -> Fin(0 - 1)
      [] s = "1"   -> Fin(1)
      [] s = "2"   -> Fin(2)
      [] s = "100" -> Fin(100)
      [] s = "101" -> Fin(101)
      [] s = "nan" -> NaN
      [] OTHER     -> NaN

\* float(s) raises ValueError on text that is no number
FloatTextRaises(s) ==
    s \notin {"0", "0.0", "0.00", "-1", "1", "2", "100", "101", "nan"}

\* float(v) of a JSON scalar (never called on None: every call site has `or 0`)
FloatRaises(v) == v.t = "str" /\ FloatTextRaises(v.s)
FloatOf(v)     == IF v.t = "num" THEN Fin(v.n) ELSE FloatText(v.s)

\* int(v) of a JSON scalar: a number is itself, text must be a decimal integer
IntRaises(v) == v.t = "str" /\ v.s \notin {"0", "1", "2", "100", "101", "-1"}
IntOf(v)     == IF v.t = "num" THEN v.n ELSE FloatText(v.s).v

(***************************************************************************)
(* JSON objects of the feed.  An order is the value under "o": an object   *)
(* (each key a value, Null or Absent), a missing key ("absent"), null, the *)
(* number 0 ("zero", a non-object that is falsy) or the number 5 ("num", a *)
(* non-object that is truthy).  An envelope is one element of the stream:  *)
(* an object with "E" and "o", null, the number 0 or the number 5.         *)
(***************************************************************************)
Order(s, ap, p, q, S, T) ==
    [t |-> "obj", s |-> s, ap |-> ap, p |-> p, q |-> q, S |-> S, T |-> T]
NonOrder(t) == [t |-> t, s |-> Absent, ap |-> Absent, p |-> Absent,
                q |-> Absent, S |-> Absent, T |-> Absent]
NoOrder   == NonOrder("absent")
NullOrder == NonOrder("null")
ZeroOrder == NonOrder("zero")
NumOrder  == NonOrder("num")

Env(E, o) == [t |-> "obj", E |-> E, o |-> o]
NullEnv   == [t |-> "null", E |-> Absent, o |-> NoOrder]
ZeroEnv   == [t |-> "zero", E |-> Absent, o |-> NoOrder]
NumEnv    == [t |-> "num", E |-> Absent, o |-> NoOrder]

\* `x or {}` replaces a missing key, null and 0 by the empty object
Falsy(x) == x.t \in {"absent", "null", "zero"}

\* str.upper() on the symbols of the modelled feed
Upper(s) ==
    CASE s = "btcusdt" -> "BTCUSDT"
      [] s = "ethusdt" -> "ETHUSDT"
      [] OTHER         -> s

(***************************************************************************)
(* The modelled feed.                                                      *)
(***************************************************************************)
Good(s, p, q, T) == Env(Absent, Order(Str(s), Absent, Str(p), Str(q), Str("BUY"), T))

E_A     == Good("BTCUSDT", "100", "1", Num(T_RECENT))
E_B     == Good("BTCUSDT", "101", "2", Num(T_RECENT))
E_Old   == Good("BTCUSDT", "100", "1", Num(T_OLD))
E_Lower == Good("btcusdt", "100", "1", Num(T_RECENT))
E_NoT   == Env(Absent, Order(Str("BTCUSDT"), Str("101"), Str("100"), Str("1"),
                             Absent, Absent))

\* an event whose "E", "ap" and "S" are present with the value null
E_Null  == Env(Null, Order(Str("BTCUSDT"), Null, Str("100"), Str("1"), Null,
                           Num(T_RECENT)))

\* an event with order price 100, quantity 1 and the average price `ap`
WithAp(ap) == Env(Absent, Order(Str("BTCUSDT"), ap, Str("100"), Str("1"),
                                Str("BUY"), Num(T_RECENT)))

\* valid events: symbol present, price > 0, quantity > 0
ValidEnvs == {E_A, E_B, E_Old, E_Lower, E_NoT, E_Null}

\* events _consume_force_orders filters without raising
FilteredEnvs ==
    { Good("BTCUSDT", "0", "1", Num(T_RECENT)),
      Good("BTCUSDT", "-1", "1", Num(T_RECENT)),
      Good("BTCUSDT", "100", "0", Num(T_RECENT)),
      WithAp(Str("0.0")),
      Env(Num(T_RECENT), Order(Absent, Absent, Str("100"), Str("1"), Str("SELL"), Absent)),
      Env(Num(T_RECENT), NoOrder),
      Env(Absent, ZeroOrder),
      NullEnv,
      ZeroEnv }

\* an event whose price is the float text "nan"
NanEnvs == { Good("BTCUSDT", "nan", "1", Num(T_RECENT)) }

\* events whose decoding raises
RaisingEnvs ==
    { Good("BTCUSDT", "abc", "1", Num(T_RECENT)),
      Good("BTCUSDT", "100", "abc", Num(T_RECENT)),
      Good("BTCUSDT", "100", "1", Str("abc")),
      Env(Absent, NumOrder),
      NumEnv }

Envs == ValidEnvs \cup FilteredEnvs \cup NanEnvs \cup RaisingEnvs

\* elements of the arrays the '!forceOrder@arr' stream delivers
BatchEnvs == {E_A, E_B, Good("BTCUSDT", "abc", "1", Num(T_RECENT)),
              Good("BTCUSDT", "0", "1", Num(T_RECENT))}

\* A raw message: text that is no JSON, one value, one value under "data"
\* (the combined-stream wrapper), or an array of values.
Msg(shape, evs) == [shape |-> shape, evs |-> evs]
Messages ==
    {Msg("badjson", <<>>)}
    \cup {Msg("bare", <<e>>) : e \in Envs}
    \cup {Msg("wrapped", <<e>>) : e \in Envs}
    \cup {Msg("list", <<>>)}
    \cup {Msg("list", <<e>>) : e \in BatchEnvs}
    \cup {Msg("list", <<e, f>>) : e \in BatchEnvs, f \in BatchEnvs}

\* the feed of the connection-lifecycle specification: one message of each
\* outcome (no JSON, stored, filtered, raising while decoding)
ProbeMessages ==
    { Msg("badjson", <<>>),
      Msg("bare", <<E_A>>),
      Msg("bare", <<Good("BTCUSDT", "0", "1", Num(T_RECENT))>>),
      Msg("bare", <<Good("BTCUSDT", "abc", "1", Num(T_RECENT))>>) }

\* the feed of routers/liq.py: the same messages, a liquidation of a second
\* symbol in the combined-stream wrapper, and one whose symbol is the number 5
E_Eth == Good("ETHUSDT", "100", "1", Num(T_RECENT))
E_SymNum == Env(Absent, Order(Num(5), Absent, Str("100"), Str("1"), Str("BUY"),
                              Num(T_RECENT)))

LiqMessages == Messages \cup {Msg("wrapped", <<E_Eth>>), Msg("wrapped", <<E_SymNum>>)}

(***************************************************************************)
(* ws_liq._consume_force_orders, lines 38-55: one element of a message.    *)
(* The result says whether the element raised, and the print it appends    *)
(* under which key when it did not raise and was not filtered.             *)
(***************************************************************************)
NoItem == <<0, Fin(0), Fin(0), "">>
Skip   == [raised |-> FALSE, store |-> FALSE, key |-> "", item |-> NoItem]
Raise  == [raised |-> TRUE, store |-> FALSE, key |-> "", item |-> NoItem]

\* line 47: float(ap) if ap and ap != "0" else float(p or 0.0)
PriceSource(o) ==
    LET ap == GetDefault(o.ap, Str("0"))
        p  == GetDefault(o.p, Str("0"))
    IN  IF Truthy(ap) /\ ap # Str("0") THEN ap ELSE Or(p, Num(0))

\* line 48: float(o.get("q", "0") or 0.0)
QtySource(o) == Or(GetDefault(o.q, Str("0")), Num(0))

\* line 50: int(o.get("T") or ev.get("E") or now_ms)
TsSource(ev, o, now_ms) == Or(o.T, Or(ev.E, Num(now_ms)))

\* line 49: o.get("S", "UNKNOWN"); the side is stored as it is found, null
\* as None
SideOf(o) == PyValue(GetDefault(o.S, Str("UNKNOWN")))

\* line 40: o = (ev or {}).get("o") or {}
DecodeEvent(ev, now_ms) ==
    IF Falsy(ev) THEN Skip                     \* (ev or {}) is {}: no symbol
    ELSE IF ev.t = "num" THEN Raise            \* the number 5 has no .get
    ELSE IF ev.o.t = "num" THEN Raise          \* "o" is 5: o.get raises
    ELSE
      LET o == IF Falsy(ev.o) THEN NoOrder ELSE ev.o IN    \* `or {}`
      IF ~Truthy(o.s) THEN Skip                \* lines 41-43
      ELSE IF FloatRaises(PriceSource(o)) THEN Raise
      ELSE IF FloatRaises(QtySource(o)) THEN Raise
      ELSE IF IntRaises(TsSource(ev, o, now_ms)) THEN Raise
      ELSE
        LET price    == FloatOf(PriceSource(o))
            qty      == FloatOf(QtySource(o))
            ts       == IntOf(TsSource(ev, o, now_ms))
            notional == FMul(price, qty)
        IN  IF FLe0(price) \/ FLe0(qty) THEN Skip
            ELSE [raised |-> FALSE, store |-> TRUE, key |-> PyValue(o.s),
                  item |-> <<ts, price, notional, SideOf(o)>>]

\* faulty variant: a deque without maxlen
DequeAppendNoEvict(q, x, n) == Append(q, x)

\* faulty variant: a full deque drops its newest element
DequeAppendEvictNewest(q, x, n) ==
    IF Len(q) < n THEN Append(q, x) ELSE Append(SubSeq(q, 1, Len(q) - 1), x)

\* deque(maxlen=n).append(x): a full deque drops its oldest element
DequeAppend(q, x, n) ==
    IF Len(q) < n THEN Append(q, x) ELSE Append(Tail(q), x)

\* lines 54-55: _BUFS[sym] creates the key on first use (defaultdict)
BufAppend(bufs, key, item) ==
    LET old == IF key \in DOMAIN bufs THEN bufs[key] ELSE <<>>
    IN  [k \in DOMAIN bufs \cup {key} |->
            IF k = key THEN DequeAppend(old, item, BufMaxLen) ELSE bufs[k]]

\* whether the buffer of `key` is at its maxlen
IsFull(bufs, key) == key \in DOMAIN bufs /\ Len(bufs[key]) >= BufMaxLen

\* line 35: events = data if isinstance(data, list) else [data]
\* The wrapper of a combined stream is an object with no "o" and no "E".
EventsOf(m) ==
    IF m.shape = "wrapped" THEN <<Env(Absent, NoOrder)>> ELSE m.evs

\* The outcome of one message: the buffers after it, whether it raised, the
\* <<key, print>> pairs it appended, and whether an append met a full buffer.
Outcome(bufs, raised, added, full) ==
    [bufs |-> bufs, raised |-> raised, added |-> added, full |-> full]

\* lines 38-55: the for loop; an element that raises ends it, and what the
\* elements before it appended stays appended
RECURSIVE ConsumeEvents(_, _, _, _, _)
ConsumeEvents(bufs, evs, now_ms, added, full) ==
    IF evs = <<>> THEN Outcome(bufs, FALSE, added, full)
    ELSE LET r == DecodeEvent(Head(evs), now_ms) IN
         IF r.raised THEN Outcome(bufs, TRUE, added, full)
         ELSE IF r.store
              THEN ConsumeEvents(BufAppend(bufs, r.key, r.item), Tail(evs), now_ms,
                                 Append(added, <<r.key, r.item>>),
                                 full \/ IsFull(bufs, r.key))
              ELSE ConsumeEvents(bufs, Tail(evs), now_ms, added, full)

\* lines 34-55: one received message
HandleMessage(bufs, m, now_ms) ==
    IF m.shape = "badjson" THEN Outcome(bufs, TRUE, <<>>, FALSE)   \* json.loads
    ELSE ConsumeEvents(bufs, EventsOf(m), now_ms, <<>>, FALSE)

\* faulty variant: a handler that catches transport errors only
CaughtTransportOnly(exc) == exc \in {"ConnectionClosed", "OSError"}

\* line 56: `except Exception` catches every exception class the body raises
\* (ConnectionClosed, OSError, ValueError, AttributeError, TypeError)
Caught(exc) == exc \in {"ConnectionClosed", "OSError", "ValueError",
                        "AttributeError", "TypeError"}

\* where control goes when the body of the try raises `exc`
OnRaise(exc) == IF Caught(exc) THEN "backoff" ELSE "exited"

\* faulty variant: the doubling without the cap
NextBackoffNoCap(b) == b * 2

\* line 59
NextBackoff(b) == Min(b * 2, BACKOFF_CAP)

(***************************************************************************)
(* routers/liq.py, liq_consumer lines 27-35: one received message.         *)
(***************************************************************************)
NoRow   == <<0, "", "", Fin(0), Fin(0), Fin(0)>>
LiqSkip == [raised |-> FALSE, store |-> FALSE, row |-> NoRow]
LiqRaise == [raised |-> TRUE, store |-> FALSE, row |-> NoRow]

\* line 30: o.get("S") is None when the key is missing or null
LiqSideOf(o) == PyValue(o.S)

\* lines 29-35 on the order object o
LiqDecodeOrder(o, now_ms) ==
    IF FloatRaises(Or(o.p, Num(0))) THEN LiqRaise
    ELSE IF FloatRaises(Or(o.q, Num(0))) THEN LiqRaise
    ELSE IF IntRaises(Or(o.T, Num(now_ms))) THEN LiqRaise
    ELSE
      LET p == FloatOf(Or(o.p, Num(0)))
          q == FloatOf(Or(o.q, Num(0)))
          t == IntOf(Or(o.T, Num(now_ms)))
      IN  IF Truthy(o.s) /\ FGt0(p) /\ FGt0(q)                      \* line 34
          THEN IF o.s.t = "num" THEN LiqRaise     \* line 35: a number has no .upper
               ELSE [raised |-> FALSE, store |-> TRUE,
                     row |-> <<t, Upper(o.s.s), LiqSideOf(o), p, q, FMul(p, q)>>]
          ELSE LiqSkip

\* lines 27-28: d = json.loads(msg); o = (d.get("data") or {}).get("o", {})
LiqDecode(m, now_ms) ==
    IF m.shape = "badjson" THEN LiqRaise            \* json.loads raises
    ELSE IF m.shape = "list" THEN LiqRaise          \* a list has no .get
    ELSE LET d == m.evs[1] IN
      IF m.shape = "bare"
      THEN IF d.t = "obj"
           THEN LiqDecodeOrder(NoOrder, now_ms)     \* no "data" key: o is {}
           ELSE LiqRaise                            \* None or a number has no .get
      ELSE \* "wrapped": d is the value under "data"
           IF Falsy(d) THEN LiqDecodeOrder(NoOrder, now_ms)   \* `or {}`: o is {}
           ELSE IF d.t = "num" THEN LiqRaise        \* the number 5 has no .get
           ELSE IF d.o.t # "absent" /\ d.o.t # "obj"
                THEN LiqRaise     \* .get("o", {}) gives null, 0 or 5: o.get raises
           ELSE LiqDecodeOrder(d.o, now_ms)

\* lines 26-37: the per-message try; a message that raises is passed over
LiqHandle(buf, m, now_ms) ==
    LET r == LiqDecode(m, now_ms) IN
    IF r.store THEN DequeAppend(buf, r.row, RingMaxLen) ELSE buf

(***************************************************************************)
(* app.py, _ws_thread.on_message lines 143-161: one received message.  The *)
(* messages of the modelled feed have no key "s" or "S" beside "o" and no  *)
(* key "l" in the order: payload.get("s"), payload.get("S") and o.get("l") *)
(* find a missing key.                                                     *)
(***************************************************************************)
\* line 149: side = o.get("S") or payload.get("S")
AppSideOf(o) == PyValue(Or(o.S, Absent))

\* lines 147-155 on the payload: o = payload.get("o", {}), then the fields,
\* up to the row of line 155 (`store` says that the row was built)
AppDecodePayload(payload, now_ms) ==
    IF payload.o.t # "absent" /\ payload.o.t # "obj"
    THEN LiqRaise                       \* "o" is null, 0 or 5: o.get raises
    ELSE
      LET o    == payload.o
          ssrc == Or(o.s, Or(Absent, Str("")))                       \* line 148
          psrc == Or(o.p, Or(o.ap, Num(0)))                          \* line 150
          qsrc == Or(o.q, Or(Absent, Num(0)))                        \* line 151
          tsrc == Or(o.T, Or(payload.E, Num(now_ms)))                \* line 152
      IN
      IF ssrc.t = "num" THEN LiqRaise                \* a number has no .upper
      ELSE IF FloatRaises(psrc) THEN LiqRaise
      ELSE IF FloatRaises(qsrc) THEN LiqRaise
      ELSE IF IntRaises(tsrc) THEN LiqRaise
      ELSE
        LET p == FloatOf(psrc)
            q == FloatOf(qsrc)
        IN  IF FLe0(p) \/ FLe0(q) THEN LiqSkip                       \* line 153
            ELSE [raised |-> FALSE, store |-> TRUE,
                  row |-> <<IntOf(tsrc), Upper(ssrc.s), AppSideOf(o), p, q,
                            FMul(p, q)>>]

\* lines 145-146: d = json.loads(message); payload = d.get("data") or d
AppDecode(m, now_ms) ==
    IF m.shape = "badjson" THEN LiqRaise            \* json.loads raises
    ELSE IF m.shape = "list" THEN LiqRaise          \* a list has no .get
    ELSE LET d == m.evs[1] IN
      IF m.shape = "bare"
      THEN IF d.t = "obj"
           THEN AppDecodePayload(d, now_ms)         \* no "data" key: payload is d
           ELSE LiqRaise                            \* None or a number has no .get
      ELSE \* "wrapped": d is the value under "data"
           IF Falsy(d)                  \* `or d`: the payload is the wrapper
           THEN AppDecodePayload(Env(Absent, NoOrder), now_ms)
           ELSE IF d.t = "num" THEN LiqRaise        \* the number 5 has no .get
           ELSE AppDecodePayload(d, now_ms)

\* line 158: st.session_state.get("liq_window_min", 30)
LIQ_WINDOW_DEFAULT == 30

\* lines 143-161: the handler on the session buffer `buf`, a list of rows.
\* A row that was built is appended (line 157), then the buffer is replaced
\* by its rows that are not older than the window (lines 158-159); a
\* message that raised or was filtered leaves the buffer as it was.
AppHandle(buf, m, now_ms, window_min) ==
    LET r == AppDecode(m, now_ms) IN
    IF r.store
    THEN SelectSeq(Append(buf, r.row),
                   LAMBDA x : x[1] >= now_ms - window_min * MINUTE_MS)
    ELSE buf

(***************************************************************************)
(* The float arithmetic of get_heatmap, lines 113-130: IEEE 754 binary64,  *)
(* every operation rounded to the nearest value, ties to the even one.  A  *)
(* natural number of any size is the sequence of its digits in base LIMB,  *)
(* lowest digit first, no zero digit at the top.  A double is m * 2^e,     *)
(* negated when neg, with a mantissa m of exactly 53 bits, or zero.  The   *)
(* values of get_heatmap are far from the overflow and the subnormal range. *)
(***************************************************************************)
LIMB == 32768
LIMB_BITS == 15
MANT_BITS == 53

RECURSIVE NatOf(_)
NatOf(n) == IF n = 0 THEN <<>> ELSE <<n % LIMB>> \o NatOf(n \div LIMB)

RECURSIVE NatNorm(_)
NatNorm(a) == IF a = <<>> THEN <<>>
              ELSE IF a[Len(a)] = 0 THEN NatNorm(SubSeq(a, 1, Len(a) - 1))
              ELSE a

Low(a)  == IF a = <<>> THEN 0 ELSE Head(a)
Rest(a) == IF a = <<>> THEN <<>> ELSE Tail(a)

RECURSIVE NatAddC(_, _, _)
NatAddC(a, b, c) ==
    IF a = <<>> /\ b = <<>> THEN (IF c = 0 THEN <<>> ELSE <<c>>)
    ELSE LET t == Low(a) + Low(b) + c
         IN  <<t % LIMB>> \o NatAddC(Rest(a), Rest(b), t \div LIMB)

NatAdd(a, b) == NatAddC(a, b, 0)

\* a - b for a >= b
RECURSIVE NatSubB(_, _, _)
NatSubB(a, b, borrow) ==
    IF a = <<>> THEN <<>>
    ELSE LET t == Head(a) - Low(b) - borrow
         IN  <<IF t < 0 THEN t + LIMB ELSE t>>
             \o NatSubB(Tail(a), Rest(b), IF t < 0 THEN 1 ELSE 0)

NatSub(a, b) == NatNorm(NatSubB(a, b, 0))

\* -1, 0 or 1 as a is below, equal to or above b
RECURSIVE NatCmpAt(_, _, _)
NatCmpAt(a, b, i) ==
    IF i = 0 THEN 0
    ELSE IF a[i] < b[i] THEN 0 - 1
    ELSE IF a[i] > b[i] THEN 1
    ELSE NatCmpAt(a, b, i - 1)

NatCmp(a, b) ==
    IF Len(a) < Len(b) THEN 0 - 1
    ELSE IF Len(a) > Len(b) THEN 1
    ELSE NatCmpAt(a, b, Len(a))

\* a * d + c for digits d >= 1 and c
RECURSIVE NatMulSmallC(_, _, _)
NatMulSmallC(a, d, c) ==
    IF a = <<>> THEN (IF c = 0 THEN <<>> ELSE <<c>>)
    ELSE LET t == Head(a) * d + c
         IN  <<t % LIMB>> \o NatMulSmallC(Tail(a), d, t \div LIMB)

NatMulSmall(a, d) ==
    IF d = 0 THEN <<>> ELSE IF d = 1 THEN a ELSE NatMulSmallC(a, d, 0)

\* a * LIMB^k
NatUp(a, k) == IF a = <<>> THEN <<>> ELSE [i \in 1..k |-> 0] \o a

RECURSIVE NatMul(_, _)
NatMul(a, b) ==
    IF b = <<>> THEN <<>>
    ELSE NatAdd(NatMulSmall(a, Head(b)), NatUp(NatMul(a, Tail(b)), 1))

\* quotient and remainder of a by a digit d >= 1
RECURSIVE NatDivSmallR(_, _)
NatDivSmallR(a, d) ==
    IF a = <<>> THEN [q |-> <<>>, r |-> 0]
    ELSE LET hi  == NatDivSmallR(Tail(a), d)
             cur == hi.r * LIMB + Head(a)
         IN  [q |-> <<cur \div d>> \o hi.q, r |-> cur % d]

NatDivSmall(a, d) ==
    IF d = 1 THEN [q |-> a, r |-> 0]
    ELSE LET x == NatDivSmallR(a, d) IN [q |-> NatNorm(x.q), r |-> x.r]

RECURSIVE BitLen(_)
BitLen(n) == IF n = 0 THEN 0 ELSE 1 + BitLen(n \div 2)

NatBitLen(a) ==
    IF a = <<>> THEN 0 ELSE LIMB_BITS * (Len(a) - 1) + BitLen(a[Len(a)])

\* 2^k for k below LIMB_BITS
LimbPow2(k) ==
    <<1, 2, 4, 8, 16, 32, 64, 128, 256, 512, 1024, 2048, 4096, 8192, 16384>>[k + 1]

\* a * 2^k and the whole part of a / 2^k
NatShl(a, k) ==
    IF k = 0 THEN a
    ELSE NatUp(NatMulSmall(a, LimbPow2(k % LIMB_BITS)), k \div LIMB_BITS)
NatShr(a, k) ==
    LET n == k \div LIMB_BITS IN
    IF n >= Len(a) THEN <<>>
    ELSE NatDivSmall(SubSeq(a, n + 1, Len(a)), LimbPow2(k % LIMB_BITS)).q

DblZero == [neg |-> FALSE, m |-> <<>>, e |-> 0]

\* the double of a mantissa m2 of MANT_BITS bits, or of one bit more after
\* a carry
DblCarry(neg, m2, e) ==
    IF NatBitLen(m2) > MANT_BITS
    THEN [neg |-> neg, m |-> NatShr(m2, 1), e |-> e + 1]
    ELSE [neg |-> neg, m |-> m2, e |-> e]

\* round to nearest, ties to even: c compares the bits cut off below `kept`
\* with half a unit of it
DblNearest(neg, kept, e, c, sticky) ==
    DblCarry(neg,
             IF c > 0 \/ (c = 0 /\ (sticky \/ kept[1] % 2 = 1))
             THEN NatAdd(kept, <<1>>) ELSE kept,
             e)

\* `kept` is m without its s low bits
DblCut(neg, m, e, sticky, s, kept) ==
    DblNearest(neg, kept, e + s,
               NatCmp(NatSub(m, NatShl(kept, s)), NatShl(<<1>>, s - 1)),
               sticky)

\* the double nearest to m * 2^e, or to a value above it and below
\* (m + 1) * 2^e when `sticky`; a tie goes to the even mantissa.  len is the
\* number of bits of m
DblRoundLen(neg, m, e, sticky, len) ==
    IF m = <<>> THEN DblZero
    ELSE IF len <= MANT_BITS
    THEN [neg |-> neg, m |-> NatShl(m, MANT_BITS - len), e |-> e - (MANT_BITS - len)]
    ELSE DblCut(neg, m, e, sticky, len - MANT_BITS, NatShr(m, len - MANT_BITS))

DblRound(neg, m, e, sticky) == DblRoundLen(neg, m, e, sticky, NatBitLen(m))

\* float(n) of an integer
DblOfInt(n) == DblRound(n < 0, NatOf(IF n < 0 THEN 0 - n ELSE n), 0, FALSE)

\* the mantissas of a and b counted in units of the lower of the two exponents
DblAligned(a, b) ==
    LET e == Min(a.e, b.e)
    IN  [e |-> e, ma |-> NatShl(a.m, a.e - e), mb |-> NatShl(b.m, b.e - e)]

DblNeg(a) == IF a.m = <<>> THEN a ELSE [a EXCEPT !.neg = ~a.neg]

\* -1, 0 or 1 as the magnitude of a is below, equal to or above that of b
DblCmpAligned(al) == NatCmp(al.ma, al.mb)
DblCmpMag(a, b) == DblCmpAligned(DblAligned(a, b))

\* a + b for aligned mantissas al that compare as c: the sum of the
\* magnitudes under equal signs, else their difference under the sign of the
\* larger (the difference of equal magnitudes is zero)
DblAddAligned(a, b, al, c) ==
    DblRound(IF a.neg = b.neg \/ c > 0 THEN a.neg ELSE b.neg,
             IF a.neg = b.neg THEN NatAdd(al.ma, al.mb)
             ELSE IF c >= 0 THEN NatSub(al.ma, al.mb)
             ELSE NatSub(al.mb, al.ma),
             al.e, FALSE)

DblAddOn(a, b, al) == DblAddAligned(a, b, al, DblCmpAligned(al))

\* a + b
DblAdd(a, b) ==
    IF a.m = <<>> THEN b
    ELSE IF b.m = <<>> THEN a
    ELSE DblAddOn(a, b, DblAligned(a, b))

\* a - b
DblSub(a, b) == DblAdd(a, DblNeg(b))

\* a * b
DblMul(a, b) ==
    DblRound(a.neg # b.neg, NatMul(a.m, b.m), a.e + b.e, FALSE)

\* a / float(d) for an integer 1 <= d < LIMB: the quotient x of the mantissa,
\* taken to at least two bits more than a double holds, then rounded
DblQuotient(a, x) == DblRound(a.neg, x.q, a.e - (LIMB_BITS + 3), x.r # 0)
DblDivInt(a, d) == DblQuotient(a, NatDivSmall(NatShl(a.m, LIMB_BITS + 3), d))

\* a <= b, where c compares the magnitudes
DblLeMag(a, b, c) ==
    IF a.neg /\ ~b.neg THEN TRUE
    ELSE IF ~a.neg /\ b.neg THEN a.m = <<>> /\ b.m = <<>>
    ELSE IF a.neg THEN c >= 0 ELSE c <= 0

DblLe(a, b) == DblLeMag(a, b, DblCmpMag(a, b))

DblLt(a, b) == ~DblLe(b, a)

(***************************************************************************)
(* ws_liq.get_heatmap, lines 88-137.  Prices and notionals are the whole   *)
(* numbers of the feed; the padded range, the bin width and the labels of  *)
(* x are doubles, and the price index is the floor division of doubles.    *)
(***************************************************************************)
FAdd(a, b) == IF a.nan \/ b.nan THEN NaN ELSE Fin(a.v + b.v)

\* min() and max() of Python keep the first element unless a later one
\* compares smaller (greater); a comparison with NaN is false
RECURSIVE PyMin(_, _)
PyMin(m, s) == IF s = <<>> THEN m
               ELSE PyMin(IF FLt(Head(s), m) THEN Head(s) ELSE m, Tail(s))
RECURSIVE PyMax(_, _)
PyMax(m, s) == IF s = <<>> THEN m
               ELSE PyMax(IF FLt(m, Head(s)) THEN Head(s) ELSE m, Tail(s))

RECURSIVE SelectItems(_, _)
SelectItems(s, start_ms) ==
    IF s = <<>> THEN <<>>
    ELSE IF Head(s)[1] >= start_ms
         THEN <<Head(s)>> \o SelectItems(Tail(s), start_ms)
         ELSE SelectItems(Tail(s), start_ms)

RECURSIVE Prices(_)
Prices(items) == IF items = <<>> THEN <<>>
                 ELSE <<Head(items)[2]>> \o Prices(Tail(items))

EmptyGrid == [err |-> "", x |-> <<>>, y |-> <<>>, z |-> <<>>]
Raised(e) == [err |-> e, x |-> <<>>, y |-> <<>>, z |-> <<>>]

\* line 129
TimeIndex(ts, start_ms, minutes) ==
    Min(Max((ts - start_ms) \div MINUTE_MS, 0), minutes - 1)

\* 0.01 as the double the literal of line 113 stands for: 0x1.47ae147ae147bp-7
PAD_FACTOR == [neg |-> FALSE, m |-> <<5243, 3932, 27525, 163>>, e |-> 0 - 59]

\* lines 113-118 for whole-number prices lo < hi: pad = (hi - lo) * 0.01,
\* lo -= pad, hi += pad, bin_w = (hi - lo) / max(1, bins)
AxesOn(lo, hi, bins) ==                                      \* line 118
    [lo |-> lo, hi |-> hi, bin_w |-> DblDivInt(DblSub(hi, lo), Max(1, bins))]
AxesPad(lo, hi, pad, bins) ==                                \* lines 114-115
    AxesOn(DblSub(lo, pad), DblAdd(hi, pad), bins)
AxesOf(lo, hi, bins) ==                                      \* line 113
    AxesPad(lo, hi, DblMul(DblSub(hi, lo), PAD_FACTOR), bins)
Axes(lo, hi, bins) == AxesOf(DblOfInt(lo), DblOfInt(hi), bins)

\* a // b of two doubles a >= 0 and b > 0, as far as `top`: float_divmod
\* takes the exact remainder (fmod), divides what is left and adds one to a
\* floor that fell more than a half short, which gives the floor of the exact
\* quotient of the two doubles
DblFloorDivUpTo(a, b, top) ==
    Cardinality({k \in 1..top : DblLe([b EXCEPT !.m = NatMulSmall(b.m, k)], a)})

\* lines 130-134: xi = int((price - lo) // bin_w), clamped to 0..bins-1,
\* on the padded range and bin width `ax`
ClampIndex(raw, bins) == IF raw >= bins THEN bins - 1 ELSE raw
PriceIndexAt(v, bin_w, bins) ==
    IF v.neg THEN 0
    ELSE ClampIndex(DblFloorDivUpTo(v, bin_w, Max(1, bins)), bins)
PriceIndexOn(price, ax, bins) ==
    PriceIndexAt(DblSub(DblOfInt(price), ax.lo), ax.bin_w, bins)

\* the price index of a print at `price` when lo and hi are the lowest and
\* the highest price of the window
PriceIndex(price, lo, hi, bins) == PriceIndexOn(price, Axes(lo, hi, bins), bins)

\* line 119: lo + i * bin_w
BinLabelOn(i, ax) == DblAdd(ax.lo, DblMul(DblOfInt(i), ax.bin_w))

BinLabel(i, lo, hi, bins) == BinLabelOn(i, Axes(lo, hi, bins))

\* the price index of each item, in the order of the items
RECURSIVE PriceIndexes(_, _, _)
PriceIndexes(items, ax, bins) ==
    IF items = <<>> THEN <<>>
    ELSE <<PriceIndexOn(Head(items)[2].v, ax, bins)>>
         \o PriceIndexes(Tail(items), ax, bins)

\* lines 128-135: the notional the items put in cell (yi, xi); xs[i] is the
\* price index of items[i]
RECURSIVE CellSum(_, _, _, _, _, _)
CellSum(items, xs, yi, xi, start_ms, minutes) ==
    IF items = <<>> THEN Fin(0)
    ELSE LET n    == Len(items)
             it   == items[n]
             rest == CellSum(SubSeq(items, 1, n - 1), xs, yi, xi, start_ms, minutes)
             here == /\ TimeIndex(it[1], start_ms, minutes) = yi
                     /\ xs[n] = xi
         IN  IF here THEN FAdd(rest, it[3]) ELSE rest

\* lines 119-137: the labels of the two axes and the cells, for the padded
\* range and bin width `ax` and the price indexes xs of the items
Grid(items, ax, xs, bins, minutes, start_ms) ==
    [err |-> "",
     x |-> [i \in 1..bins |-> BinLabelOn(i - 1, ax)],
     y |-> [i \in 1..minutes |-> start_ms + (i - 1) * MINUTE_MS],
     z |-> [yi \in 1..minutes |-> [xi \in 1..bins |->
              CellSum(items, xs, yi - 1, xi - 1, start_ms, minutes)]]]

GridOn(items, ax, bins, minutes, start_ms) ==
    Grid(items, ax, PriceIndexes(items, ax, bins), bins, minutes, start_ms)

GetHeatmap(bufs, symbol0, minutes, bins, end_ms) ==
    LET symbol == Upper(symbol0) IN                                  \* line 94
    IF symbol \notin DOMAIN bufs THEN EmptyGrid                      \* line 95
    ELSE
      LET start_ms == end_ms - minutes * MINUTE_MS                   \* line 99
          items    == SelectItems(bufs[symbol], start_ms)            \* line 102
      IN
      IF items = <<>> THEN EmptyGrid                                 \* line 103
      ELSE
        LET ps == Prices(items)
            lo == PyMin(Head(ps), Tail(ps))                          \* line 107
            hi == PyMax(Head(ps), Tail(ps))                          \* line 108
        IN
        IF FLe(hi, lo) THEN EmptyGrid                                \* line 109
        ELSE IF lo.nan \/ hi.nan \/ Head(ps).nan
             THEN Raised("ValueError")           \* line 130: int() of a NaN
        ELSE IF minutes <= 0 \/ bins <= 0
             THEN Raised("IndexError")           \* line 135: z or its row is empty
        ELSE IF \E k \in 1..Len(ps) : ps[k].nan
             THEN Raised("ValueError")           \* line 130 at a later item
        ELSE
          GridOn(items, Axes(lo.v, hi.v, bins),                      \* 113-118
                 bins, minutes, start_ms)

\* defaultdict.__getitem__: a missing key is created with an empty deque
BufsGet(bufs, key) ==
    [k \in DOMAIN bufs \cup {key} |-> IF k \in DOMAIN bufs THEN bufs[k] ELSE <<>>]

\* faulty variant: the buffer is looked up without the test of line 95
BufsAfterQueryNoTest(bufs, symbol0) == BufsGet(bufs, Upper(symbol0))

\* _BUFS after get_heatmap: line 95 returns before any lookup of a symbol
\* that has no buffer, and line 102 looks up and reads the buffer of one
\* that has
BufsAfterQuery(bufs, symbol0) ==
    LET symbol == Upper(symbol0) IN
    IF symbol \notin DOMAIN bufs THEN bufs ELSE BufsGet(bufs, symbol)

(***************************************************************************)
(* routers/liq.py, heatmap lines 59-60: the price buckets.  The range      *)
(* pmin < pmax is cut at `bins` evenly spaced edges into bins - 1 buckets. *)
(***************************************************************************)
\* line 59: np.linspace(pmin, pmax, bins)[i], as the rational num/den
LiqEdge(i, pmin, pmax, bins) ==
    [num |-> pmin * (bins - 1) + i * (pmax - pmin), den |-> bins - 1]

\* line 60: pd.cut(price, bins=edges, include_lowest=True) for bins >= 2.
\* Bucket j is (edge j, edge j+1], the first one takes pmin as well; the
\* result is the bucket of the price, or -1 when it is in none.
LiqCut(price, pmin, pmax, bins) ==
    LET In(j) == LET e0 == LiqEdge(j, pmin, pmax, bins)
                     e1 == LiqEdge(j + 1, pmin, pmax, bins)
                 IN  /\ \/ e0.num < price * e0.den
                        \/ j = 0 /\ e0.num = price * e0.den
                     /\ price * e1.den <= e1.num
    IN  IF \E j \in 0..(bins - 2) : In(j)
        THEN CHOOSE j \in 0..(bins - 2) : In(j)
        ELSE 0 - 1

\* the elements of a finite set of integers in ascending order
RECURSIVE Ascending(_)
Ascending(S) ==
    IF S = {} THEN <<>>
    ELSE LET m == CHOOSE a \in S : \A b \in S : a <= b
         IN  <<m>> \o Ascending(S \ {m})

\* aggfunc="sum" over the notional column of some rows
RECURSIVE LiqNotional(_)
LiqNotional(rows) ==
    IF rows = <<>> THEN Fin(0)
    ELSE FAdd(Head(rows)[6], LiqNotional(Tail(rows)))

\* routers/liq.py, heatmap lines 46-65 for bins >= 2, on rows whose prices
\* are whole numbers.  When all prices are equal the range is widened to
\* 0.99 and 1.01 of the price (line 58): the prices are then counted in
\* hundredths, `scale`.  pivot_table keeps the minutes that hold a row, in
\* ascending order.  Which buckets it keeps depends on its default for
\* `observed`, and no pandas version is pinned: every bucket, an empty one
\* summing to 0 (observed=False, the default before pandas 3), or the
\* buckets that hold a row (observed=True), the other cells filled by
\* fillna(0).  A label of x is the text of the interval of its bucket, here
\* the pair of its edges; with include_lowest=True pd.cut writes the left
\* edge of the first interval 0.001 lower (precision 3).  The edges of the
\* modelled prices have at most three decimals, so rounding to the
\* precision changes none of them.
LiqHeatmap(buf, symbol0, minutes, bins, now_ms, observed) ==
    LET cutoff == now_ms - minutes * MINUTE_MS                       \* line 47
        rows   == SelectSeq(buf, LAMBDA r :
                            r[1] >= cutoff /\ r[2] = Upper(symbol0)) \* line 48
    IN
    IF rows = <<>> THEN EmptyGrid                                    \* line 49
    ELSE
      LET ps    == {rows[i][4].v : i \in 1..Len(rows)}
          lo    == CHOOSE a \in ps : \A b \in ps : a <= b            \* line 56
          hi    == CHOOSE a \in ps : \A b \in ps : b <= a
          scale == IF lo = hi THEN 100 ELSE 1
          pmin  == IF lo = hi THEN 99 * lo ELSE lo                   \* line 58
          pmax  == IF lo = hi THEN 101 * hi ELSE hi
          BinOf(r)    == LiqCut(r[4].v * scale, pmin, pmax, bins)    \* line 60
          MinuteOf(r) == (r[1] \div MINUTE_MS) * MINUTE_MS           \* line 55
          kept  == SelectSeq(rows, LAMBDA r : BinOf(r) >= 0)
          cols  == IF observed
                   THEN Ascending({BinOf(kept[i]) : i \in 1..Len(kept)})
                   ELSE [j \in 1..(bins - 1) |-> j - 1]
          mins  == Ascending({MinuteOf(kept[i]) : i \in 1..Len(kept)})
          Label(j) == LET e0 == LiqEdge(j, pmin, pmax, bins)
                          e1 == LiqEdge(j + 1, pmin, pmax, bins)
                          d0 == e0.den * scale
                      IN  <<IF j = 0
                            THEN [num |-> 1000 * e0.num - d0, den |-> 1000 * d0]
                            ELSE [num |-> e0.num, den |-> d0],
                            [num |-> e1.num, den |-> e1.den * scale]>>
      IN
      [err |-> "",
       x |-> [i \in 1..Len(cols) |-> Label(cols[i])],                \* line 62
       y |-> mins,                                                   \* line 63
       z |-> [yi \in 1..Len(mins) |-> [xi \in 1..Len(cols) |->       \* line 64
                LiqNotional(SelectSeq(kept, LAMBDA r :
                   MinuteOf(r) = mins[yi] /\ BinOf(r) = cols[xi]))]]]

(***************************************************************************)
(* ws_liq._consume_force_orders as a state machine.                        *)
(***************************************************************************)
Bump(n) == Min(n + 1, MaxFails)

\* the arguments of the calls: a symbol with a buffer (in lower case, which
\* line 94 upper-cases), a symbol never seen, and minutes and bins down to 0
HeatSymbols == {"btcusdt", "ETHUSDT"}
HeatMinutes == {0, 1, 2}
HeatBins    == {0, 1, 2}

\* the bins of the calls of liq.heatmap: two edges make one bucket
LiqBins == {2, 3}

\* the value of `hq` after a step that made no query
NoQuery == [asked |-> FALSE, symbol |-> "", minutes |-> 0, bins |-> 0,
            grid |-> EmptyGrid]

\* no call of get_heatmap has been made
NoCall == [asked |-> FALSE, symbol |-> "", minutes |-> 0, bins |-> 0, at |-> 0,
           grid |-> EmptyGrid]

\* no reader is inside get_heatmap
RdIdle == [pc |-> "idle", k |-> 0, dirty |-> FALSE, minutes |-> 0, bins |-> 0,
           end |-> 0, items |-> <<>>, grid |-> EmptyGrid]

\* the symbol the reader thread asks for
RaceSymbol == "BTCUSDT"

\* deque.append changes the state counter of the deque; an iterator made
\* before the append finds the change at its next step (line 102 in a reader)
Mutated(r, added) ==
    [r EXCEPT !.dirty = @ \/ /\ r.pc = "scanning"
                             /\ \E i \in 1..Len(added) : added[i][1] = RaceSymbol]

\* line 16: _ws_task_started = False; no caller is inside start_liq_buffer
\* and no thread runs.  run[i] holds the locals of the i-th thread started:
\* where its coroutine is, its backoff (line 26), the events of its message
\* still to handle (line 38), and the symbol, the print and the deque of
\* lines 54-55 (`own`: the deque is no longer the one in _BUFS).
SbInit == [started |-> FALSE, consumers |-> 0, cpc |-> [c \in Callers |-> "out"],
           run |-> [i \in Callers |->
                      [pc |-> "connecting", backoff |-> BACKOFF_BASE,
                       todo |-> <<>>, key |-> "", item |-> NoItem,
                       own |-> FALSE]]]

AuxInit ==
    /\ hcall = NoCall
    /\ lhq = NoQuery
    /\ rd = RdIdle
    /\ sb = SbInit
    /\ stopReq = FALSE

\* the value of `last` after a step that handled no message
NoLast == [msg |-> FALSE, raised |-> FALSE, added |-> <<>>, full |-> FALSE]

\* line 29 succeeds; line 30 resets the backoff
ConnectOk ==
    /\ pc = "connecting"
    /\ pc' = "receiving"
    /\ backoff' = BACKOFF_BASE
    /\ fails' = 0
    /\ got' = FALSE
    /\ last' = NoLast
    /\ UNCHANGED <<_BUFS, now, sawBad, liqVars, hq, auxVars>>

\* line 29 raises (refused, handshake failed, timed out)
ConnectFail ==
    /\ pc = "connecting"
    /\ pc' = OnRaise("OSError")
    /\ fails' = Bump(fails)
    /\ last' = NoLast
    /\ UNCHANGED <<backoff, _BUFS, now, got, sawBad, liqVars, hq, auxVars>>

\* line 32 raises: the connection dropped or the keepalive timed out
RecvFail ==
    /\ pc = "receiving"
    /\ pc' = OnRaise("ConnectionClosed")
    /\ fails' = Bump(fails)
    /\ last' = NoLast
    /\ UNCHANGED <<backoff, _BUFS, now, got, sawBad, liqVars, hq, auxVars>>

\* lines 32-55: a message of the feed M arrives and is handled
RecvFrom(M) ==
    /\ pc = "receiving"
    /\ \E m \in M :
         LET r == HandleMessage(_BUFS, m, now) IN
         /\ _BUFS' = r.bufs
         /\ pc' = IF r.raised THEN OnRaise("ValueError") ELSE "receiving"
         /\ fails' = IF r.raised THEN Bump(fails) ELSE fails
         /\ last' = [msg |-> TRUE, raised |-> r.raised, added |-> r.added,
                      full |-> r.full]
         /\ sawBad' = (sawBad \/ r.raised)
         /\ rd' = Mutated(rd, r.added)
    /\ got' = TRUE
    /\ UNCHANGED <<backoff, now, liqVars, hq, hcall, lhq, sb, stopReq>>

Recv == RecvFrom(Messages)

RecvProbe == RecvFrom(ProbeMessages)

\* lines 58-59: the sleep ends, the backoff doubles, the loop reconnects
BackoffDone ==
    /\ pc = "backoff"
    /\ pc' = "connecting"
    /\ backoff' = NextBackoff(backoff)
    /\ last' = NoLast
    /\ UNCHANGED <<_BUFS, now, fails, got, sawBad, liqVars, hq, auxVars>>

\* time passes
Tick ==
    /\ now < NowStart + MaxTicks * MINUTE_MS
    /\ now' = now + MINUTE_MS
    /\ last' = NoLast
    /\ llast' = "none"
    /\ hq' = NoQuery
    /\ lhq' = NoQuery
    /\ UNCHANGED <<pc, backoff, _BUFS, fails, got, sawBad, lpc, BUF>>
    /\ UNCHANGED <<hcall, rd, sb, stopReq>>

Init ==
    /\ pc = "connecting"
    /\ backoff = BACKOFF_BASE
    /\ _BUFS = [k \in {} |-> <<>>]
    /\ now = NowStart
    /\ fails = 0
    /\ got = FALSE
    /\ last = NoLast
    /\ sawBad = FALSE
    /\ lpc = "connecting"
    /\ BUF = <<>>
    /\ llast = "none"
    /\ hq = NoQuery
    /\ AuxInit

Next ==
    \/ ConnectOk
    \/ ConnectFail
    \/ RecvFail
    \/ Recv
    \/ BackoffDone
    \/ Tick

(***************************************************************************)
(* routers/liq.py, liq_consumer as a state machine.                        *)
(***************************************************************************)
\* line 24 succeeds
LiqConnectOk ==
    /\ lpc = "connecting"
    /\ lpc' = "receiving"
    /\ llast' = "none"
    /\ lhq' = NoQuery
    /\ UNCHANGED <<BUF, now, wsVars, hq, hcall, rd, sb, stopReq>>

\* line 24 raises; line 38 catches
LiqConnectFail ==
    /\ lpc = "connecting"
    /\ lpc' = "sleeping"
    /\ llast' = "none"
    /\ lhq' = NoQuery
    /\ UNCHANGED <<BUF, now, wsVars, hq, hcall, rd, sb, stopReq>>

\* faulty variant: a message that raises leaves the receive loop
LiqAfterRaiseLeaves == "sleeping"

\* lines 36-37: `except Exception: pass` is inside the `async for` of line 25
LiqAfterRaise == "receiving"

\* lines 25-37: a message arrives and is handled
LiqRecv ==
    /\ lpc = "receiving"
    /\ \E m \in LiqMessages :
         LET r == LiqDecode(m, now) IN
         /\ BUF' = LiqHandle(BUF, m, now)
         /\ llast' = IF r.raised THEN "raised" ELSE "handled"
         /\ lpc' = IF r.raised THEN LiqAfterRaise ELSE "receiving"
    /\ lhq' = NoQuery
    /\ UNCHANGED <<now, wsVars, hq, hcall, rd, sb, stopReq>>

\* line 25: the iteration raises ConnectionClosedError; line 38 catches
LiqRecvFail ==
    /\ lpc = "receiving"
    /\ lpc' = "sleeping"
    /\ llast' = "none"
    /\ lhq' = NoQuery
    /\ UNCHANGED <<BUF, now, wsVars, hq, hcall, rd, sb, stopReq>>

\* line 25: the peer closes normally, the iteration ends, line 22 loops
LiqStreamEnd ==
    /\ lpc = "receiving"
    /\ lpc' = "connecting"
    /\ llast' = "none"
    /\ lhq' = NoQuery
    /\ UNCHANGED <<BUF, now, wsVars, hq, hcall, rd, sb, stopReq>>

\* line 39: the one-second sleep ends
LiqSleepDone ==
    /\ lpc = "sleeping"
    /\ lpc' = "connecting"
    /\ llast' = "none"
    /\ lhq' = NoQuery
    /\ UNCHANGED <<BUF, now, wsVars, hq, hcall, rd, sb, stopReq>>

\* lines 45-65: one call of the route /heatmap
LiqQuery ==
    /\ \E s \in HeatSymbols : \E m \in HeatMinutes : \E b \in LiqBins :
       \E observed \in BOOLEAN :
          lhq' = [asked |-> TRUE, symbol |-> s, minutes |-> m, bins |-> b,
                  grid |-> LiqHeatmap(BUF, s, m, b, now, observed)]
    /\ llast' = "none"
    /\ hq' = NoQuery
    /\ UNCHANGED <<lpc, BUF, now, wsVars, hcall, rd, sb, stopReq>>

NextLiq ==
    \/ LiqQuery
    \/ LiqConnectOk
    \/ LiqConnectFail
    \/ LiqRecv
    \/ LiqRecvFail
    \/ LiqStreamEnd
    \/ LiqSleepDone
    \/ Tick

SpecLiq == Init /\ [][NextLiq]_vars

Spec == Init /\ [][Next]_vars

\* The connection lifecycle alone, on the feed ProbeMessages.  asyncio ends a
\* sleep when its timer fires: the step that ends the backoff wait is fair.
NextConn ==
    \/ ConnectOk
    \/ ConnectFail
    \/ RecvFail
    \/ RecvProbe
    \/ BackoffDone

LiveSpec == Init /\ [][NextConn]_vars /\ WF_vars(BackoffDone)

(***************************************************************************)
(* ws_liq.get_heatmap on the buffers the consumer can have built.  A print *)
(* is what line 55 appends for an event of quantity 1, at one of the       *)
(* prices 100, 150 and 200; the padded range and the bin width of lines    *)
(* 113-118 are the doubles the code computes from them (Axes).             *)
(***************************************************************************)
HeatRow(ts, price) == <<ts, Fin(price), Fin(price), "BUY">>

\* three prices in the last minute, one print a minute earlier, one print
\* older than every window, one print whose timestamp is ahead of the clock
HeatItems ==
    { HeatRow(T_RECENT, 100), HeatRow(T_RECENT, 150), HeatRow(T_RECENT, 200),
      HeatRow(T_PREV, 100), HeatRow(T_OLD, 150), HeatRow(T_FUTURE, 200) }

HeatSeqs == UNION {[1..n -> HeatItems] : n \in 0..HeatMaxItems}

\* a key of _BUFS exists once a print was appended under it
BufsOf(s) == IF s = <<>> THEN [k \in {} |-> <<>>] ELSE [k \in {"BTCUSDT"} |-> s]

InitHeat ==
    /\ pc = "receiving"
    /\ backoff = BACKOFF_BASE
    /\ _BUFS \in {BufsOf(s) : s \in HeatSeqs}
    /\ now = NowStart
    /\ fails = 0
    /\ got = FALSE
    /\ last = NoLast
    /\ sawBad = FALSE
    /\ lpc = "connecting"
    /\ BUF = <<>>
    /\ llast = "none"
    /\ hq = NoQuery
    /\ AuxInit

\* lines 88-137: one call of get_heatmap; hcall keeps its arguments, the clock
\* it read at line 98 and the grid it returned
Query ==
    /\ \E s \in HeatSymbols : \E m \in HeatMinutes : \E b \in HeatBins :
          /\ hq' = [asked |-> TRUE, symbol |-> s, minutes |-> m, bins |-> b,
                    grid |-> GetHeatmap(_BUFS, s, m, b, now)]
          /\ hcall' = [asked |-> TRUE, symbol |-> s, minutes |-> m, bins |-> b,
                       at |-> now, grid |-> hq'.grid]
          /\ _BUFS' = BufsAfterQuery(_BUFS, s)
    /\ lhq' = NoQuery
    /\ UNCHANGED <<pc, backoff, fails, got, last, sawBad>>
    /\ UNCHANGED <<now, liqVars, rd, sb, stopReq>>

NextHeat ==
    \/ Query
    \/ Tick

SpecHeat == InitHeat /\ [][NextHeat]_vars

(***************************************************************************)
(* The two heatmap calls on stores the consumers have filled: _BUFS with   *)
(* no key, or with one or two prints under BTCUSDT, and BUF with up to     *)
(* RingMaxLen rows of two symbols.                                         *)
(***************************************************************************)
ReadBufs ==
    { BufsOf(<<>>), BufsOf(<<HeatRow(T_RECENT, 100)>>),
      BufsOf(<<HeatRow(T_PREV, 100), HeatRow(T_RECENT, 200)>>) }

\* what line 35 appends for a liquidation of quantity 1
LiqRow(sym, price) == <<T_RECENT, sym, "BUY", Fin(price), Fin(1), Fin(price)>>

ReadRings ==
    UNION {[1..n -> {LiqRow("BTCUSDT", 100), LiqRow("ETHUSDT", 100)}] :
           n \in 0..RingMaxLen}

InitRead ==
    /\ pc = "receiving"
    /\ backoff = BACKOFF_BASE
    /\ _BUFS \in ReadBufs
    /\ now = NowStart
    /\ fails = 0
    /\ got = FALSE
    /\ last = NoLast
    /\ sawBad = FALSE
    /\ lpc = "receiving"
    /\ BUF \in ReadRings
    /\ llast = "none"
    /\ hq = NoQuery
    /\ AuxInit

NextRead ==
    \/ Query
    \/ LiqQuery

SpecRead == InitRead /\ [][NextRead]_vars

(***************************************************************************)
(* get_heatmap called again and again on a store no consumer writes to,    *)
(* while the clock runs.                                                   *)
(***************************************************************************)
InitClock ==
    /\ pc = "receiving"
    /\ backoff = BACKOFF_BASE
    /\ _BUFS \in ReadBufs
    /\ now = NowStart
    /\ fails = 0
    /\ got = FALSE
    /\ last = NoLast
    /\ sawBad = FALSE
    /\ lpc = "connecting"
    /\ BUF = <<>>
    /\ llast = "none"
    /\ hq = NoQuery
    /\ AuxInit

SpecClock == InitClock /\ [][NextHeat]_vars

(***************************************************************************)
(* ws_liq.get_heatmap in a reader thread while the consumer thread handles *)
(* messages.  The list comprehension of line 102 iterates the deque itself, *)
(* one element at a step; the interpreter can switch threads between two   *)
(* steps.  A deque iterator compares the state counter of the deque with   *)
(* the one it was made with before it does anything else, at the step that *)
(* finds the deque exhausted too.                                          *)
(***************************************************************************)
\* the feed of the race: messages that store one print
RaceMessages == {Msg("bare", <<E_A>>), Msg("bare", <<E_B>>), Msg("bare", <<E_Old>>)}

RecvRace == RecvFrom(RaceMessages)

\* lines 94-102: the call starts; an unseen symbol returns at line 96,
\* otherwise line 102 makes the iterator
ScanStart ==
    /\ rd.pc \in {"idle", "returned", "raised"}
    /\ \E m \in {1, 2} : \E b \in {1, 2} :
          rd' = IF RaceSymbol \notin DOMAIN _BUFS
                THEN [RdIdle EXCEPT !.pc = "returned", !.minutes = m, !.bins = b,
                                    !.end = now]
                ELSE [RdIdle EXCEPT !.pc = "scanning", !.minutes = m, !.bins = b,
                                    !.end = now]
    /\ UNCHANGED <<wsVars, now, liqVars, hq, hcall, lhq, sb, stopReq>>

\* line 102: the iterator yields the next element, the filter keeps or drops it
ScanStep ==
    /\ rd.pc = "scanning" /\ ~rd.dirty
    /\ rd.k < Len(_BUFS[RaceSymbol])
    /\ LET it == _BUFS[RaceSymbol][rd.k + 1] IN
       rd' = [rd EXCEPT !.k = @ + 1,
                        !.items = IF it[1] >= rd.end - rd.minutes * MINUTE_MS
                                  THEN Append(@, it) ELSE @]
    /\ UNCHANGED <<wsVars, now, liqVars, hq, hcall, lhq, sb, stopReq>>

\* line 102: "RuntimeError: deque mutated during iteration" leaves the call
ScanRaise ==
    /\ rd.pc = "scanning" /\ rd.dirty
    /\ rd' = [rd EXCEPT !.pc = "raised", !.grid = Raised("RuntimeError")]
    /\ UNCHANGED <<wsVars, now, liqVars, hq, hcall, lhq, sb, stopReq>>

\* lines 102-137: the iterator is exhausted, the grid is built from the items
ScanDone ==
    /\ rd.pc = "scanning" /\ ~rd.dirty
    /\ rd.k = Len(_BUFS[RaceSymbol])
    /\ rd' = [rd EXCEPT !.pc = "returned",
                        !.grid = GetHeatmap([k \in {RaceSymbol} |-> rd.items],
                                            RaceSymbol, rd.minutes, rd.bins, rd.end)]
    /\ UNCHANGED <<wsVars, now, liqVars, hq, hcall, lhq, sb, stopReq>>

NextRace ==
    \/ ConnectOk
    \/ RecvRace
    \/ ScanStart
    \/ ScanStep
    \/ ScanRaise
    \/ ScanDone

SpecRace == Init /\ [][NextRace]_vars

(***************************************************************************)
(* ws_liq.start_liq_buffer called from several threads.  The test of line  *)
(* 68 and the assignment of line 70 are two statements with no lock around *)
(* them: a caller can be between them when another caller runs.            *)
(***************************************************************************)
\* line 68: a caller enters and tests _ws_task_started; lines 68-69 return
SbCheck(c) ==
    /\ sb.cpc[c] = "out"
    /\ sb' = [sb EXCEPT !.cpc[c] = IF sb.started THEN "out" ELSE "passed"]

\* line 70: _ws_task_started = True
SbSet(c) ==
    /\ sb.cpc[c] = "passed"
    /\ sb' = [sb EXCEPT !.started = TRUE, !.cpc[c] = "set"]

\* lines 72-81: the thread "liq-ws-consumer" is made and started, the call returns
SbStart(c) ==
    /\ sb.cpc[c] = "set"
    /\ sb' = [sb EXCEPT !.consumers = @ + 1, !.cpc[c] = "out"]

StartLiqBuffer ==
    /\ \E c \in Callers : SbCheck(c) \/ SbSet(c) \/ SbStart(c)
    /\ UNCHANGED <<wsVars, now, liqVars, hq, hcall, lhq, rd, stopReq>>

\* Every thread that was started runs its own _consume_force_orders
\* (lines 72-77): its own locals, and the one _BUFS of the module.  `t` is
\* the thread, by the order of the starts.  The threads are switched between
\* the statements of the loop body and on entering the factory of line 14,
\* which line 54 calls for a symbol that has no key yet.
\* line 29 succeeds; line 30 resets the backoff
ThreadConnectOk(t) ==
    /\ sb.run[t].pc = "connecting"
    /\ sb' = [sb EXCEPT !.run[t].pc = "receiving",
                        !.run[t].backoff = BACKOFF_BASE]
    /\ UNCHANGED _BUFS

\* line 29 raises
ThreadConnectFail(t) ==
    /\ sb.run[t].pc = "connecting"
    /\ sb' = [sb EXCEPT !.run[t].pc = OnRaise("OSError")]
    /\ UNCHANGED _BUFS

\* line 32 raises
ThreadRecvFail(t) ==
    /\ sb.run[t].pc = "receiving"
    /\ sb' = [sb EXCEPT !.run[t].pc = OnRaise("ConnectionClosed")]
    /\ UNCHANGED _BUFS

\* lines 32-36: a message arrives on the connection of the thread and is
\* parsed into the events the loop of line 38 goes through
ThreadRecv(t) ==
    /\ sb.run[t].pc = "receiving"
    /\ \E m \in ProbeMessages :
         sb' = IF m.shape = "badjson"
               THEN [sb EXCEPT !.run[t].pc = OnRaise("ValueError")]
               ELSE [sb EXCEPT !.run[t].pc = "loop",
                               !.run[t].todo = EventsOf(m)]
    /\ UNCHANGED _BUFS

\* lines 38-54: the next event is decoded, and line 54 looks its symbol up.
\* A symbol that has a key gives the deque of _BUFS; one that has none
\* enters the factory.  After the last event the thread waits for a message.
ThreadEvent(t) ==
    LET me == sb.run[t]
        r  == DecodeEvent(Head(me.todo), now)
    IN
    /\ me.pc = "loop"
    /\ sb' = IF me.todo = <<>> THEN [sb EXCEPT !.run[t].pc = "receiving"]
             ELSE IF r.raised
             THEN [sb EXCEPT !.run[t].pc = OnRaise("ValueError"),
                             !.run[t].todo = <<>>]
             ELSE IF ~r.store THEN [sb EXCEPT !.run[t].todo = Tail(me.todo)]
             ELSE [sb EXCEPT !.run[t].pc = IF r.key \in DOMAIN _BUFS
                                           THEN "append" ELSE "factory",
                             !.run[t].key = r.key,
                             !.run[t].item = r.item,
                             !.run[t].own = FALSE]
    /\ UNCHANGED _BUFS

\* lines 14 and 54: the factory returns a new deque and __missing__ stores
\* it under the symbol, whatever another thread has stored there since the
\* lookup; a thread holding the deque that was there holds one that is no
\* longer in _BUFS
ThreadFactory(t) ==
    LET me == sb.run[t] IN
    /\ me.pc = "factory"
    /\ _BUFS' = [k \in DOMAIN _BUFS \cup {me.key} |->
                   IF k = me.key THEN <<>> ELSE _BUFS[k]]
    /\ sb' = [sb EXCEPT !.run = [u \in Callers |->
                 IF u = t THEN [me EXCEPT !.pc = "append"]
                 ELSE IF sb.run[u].pc = "append" /\ sb.run[u].key = me.key
                      THEN [sb.run[u] EXCEPT !.own = TRUE]
                      ELSE sb.run[u]]]

\* line 55: buf.append(...), on the deque line 54 gave; the locals of the
\* event are not read again
ThreadAppend(t) ==
    LET me == sb.run[t] IN
    /\ me.pc = "append"
    /\ _BUFS' = IF me.own THEN _BUFS ELSE BufAppend(_BUFS, me.key, me.item)
    /\ sb' = [sb EXCEPT !.run[t] = [me EXCEPT !.pc = "loop",
                                             !.todo = Tail(me.todo),
                                             !.key = "", !.item = NoItem,
                                             !.own = FALSE]]

\* lines 58-59: the sleep of the thread ends, its backoff doubles
ThreadBackoffDone(t) ==
    /\ sb.run[t].pc = "backoff"
    /\ sb' = [sb EXCEPT !.run[t].pc = "connecting",
                        !.run[t].backoff = NextBackoff(sb.run[t].backoff)]
    /\ UNCHANGED _BUFS

ThreadStep ==
    /\ \E t \in 1..sb.consumers :
          \/ ThreadConnectOk(t)
          \/ ThreadConnectFail(t)
          \/ ThreadRecvFail(t)
          \/ ThreadRecv(t)
          \/ ThreadEvent(t)
          \/ ThreadFactory(t)
          \/ ThreadAppend(t)
          \/ ThreadBackoffDone(t)
    /\ UNCHANGED <<pc, backoff, fails, got, last, sawBad, now, liqVars, hq>>
    /\ UNCHANGED <<hcall, lhq, rd, stopReq>>

NextStart ==
    \/ StartLiqBuffer
    \/ ThreadStep

SpecStart == Init /\ [][NextStart]_vars

(***************************************************************************)
(* Cancellation.  The specification has a stop() that signals the consumer *)
(* to end; ws_liq.py defines none, start_liq_buffer keeps no handle on the *)
(* thread it starts, and the loops of lines 27 and 31 are `while True`     *)
(* with no test of any flag.  StopSignal is the request as the             *)
(* specification words it; the steps of the consumer are the code's, and   *)
(* none of them reads stopReq.                                             *)
(***************************************************************************)
StopSignal ==
    /\ ~stopReq
    /\ stopReq' = TRUE
    /\ last' = NoLast
    /\ UNCHANGED <<pc, backoff, _BUFS, now, fails, got, sawBad, liqVars, hq>>
    /\ UNCHANGED <<hcall, lhq, rd, sb>>

NextStop ==
    \/ StopSignal
    \/ NextConn

SpecStop == Init /\ [][NextStop]_vars

TypeOK ==
    /\ pc \in {"connecting", "receiving", "backoff", "exited"}
    /\ backoff \in 1..BACKOFF_CAP
    /\ fails \in 0..MaxFails
    /\ got \in BOOLEAN
    /\ last.msg \in BOOLEAN
    /\ lpc \in {"connecting", "receiving", "sleeping"}

(***************************************************************************)
(* Properties.                                                             *)
(***************************************************************************)
Range(s) == {s[i] : i \in 1..Len(s)}

\* the arguments the queries of the properties range over
QueryMinutes == {1, 2}
QueryBins    == {1, 2}

\* C1: every per-symbol buffer of _BUFS holds at most the count bound, and
\* after a message one of whose appends met a full buffer, that buffer is
\* still exactly at the bound.
C1_CountBound ==
    /\ \A k \in DOMAIN _BUFS : Len(_BUFS[k]) <= BufMaxLen
    /\ last.full =>
         \E i \in 1..Len(last.added) : Len(_BUFS[last.added[i][1]]) = BufMaxLen

\* C1 witness: a message has just appended to a buffer that was full.
C1_Witness ==
    /\ last.msg /\ last.full
    /\ \E k \in DOMAIN _BUFS : Len(_BUFS[k]) = BufMaxLen

\* C2: no stored event is older than the age bound: every row of BUF and
\* every print of _BUFS has a timestamp within BUFFER_SECS of the clock.
C2_AgeBound ==
    /\ \A i \in 1..Len(BUF) : BUF[i][1] >= now - BUFFER_SECS * 1000
    /\ \A k \in DOMAIN _BUFS : \A i \in 1..Len(_BUFS[k]) :
          _BUFS[k][i][1] >= now - BUFFER_SECS * 1000

\* C3: after k consecutive failures the wait before the next retry is
\* min(2^k, 30): during the wait that follows failure number `fails` the
\* sleep lasts min(2^(fails-1), 30), the next one will last min(2^fails, 30),
\* and no wait exceeds 30.
C3_BackoffSequence ==
    /\ backoff <= BACKOFF_CAP
    /\ (pc = "backoff" /\ fails < MaxFails) =>
          backoff = Min(Pow2(fails - 1), BACKOFF_CAP)
    /\ (pc = "connecting" /\ fails < MaxFails) =>
          backoff = Min(Pow2(fails), BACKOFF_CAP)

\* C3 witness: the seventh consecutive failure waits at the cap (2^6 > 30).
C3_Witness == pc = "backoff" /\ fails = 7 /\ backoff = BACKOFF_CAP

\* C4: the backoff is lowered only in a step after which a message has been
\* received on the current connection.
C4_ResetOnlyAfterMessage == [][backoff' < backoff => got']_vars

\* C5: the consumer is always connecting, receiving or waiting, and every
\* backoff wait is followed by another connect attempt.
C5_NeverTerminates ==
    /\ [](pc \in {"connecting", "receiving", "backoff"})
    /\ (pc = "backoff") ~> (pc = "connecting")

\* C5 witness: a connect attempt after a message whose decoding raised.
C5_Witness == pc = "connecting" /\ sawBad /\ fails > 0

\* C6: after a message whose decoding raised, the consumer is still
\* receiving on the same connection (no backoff wait is entered).
C6_DecodeFailureSkipped == (last.msg /\ last.raised) => pc = "receiving"

\* C7: a message whose decoding raises leaves _BUFS as it was.
C7_FailedMessageStoresNothing ==
    [][(last'.msg /\ last'.raised) => _BUFS' = _BUFS]_vars

\* a grid that shows the print `it`: no error, and a cell holding at least
\* its notional
Shows(grid, it) ==
    /\ grid.err = ""
    /\ \E yi \in 1..Len(grid.z) : \E xi \in 1..Len(grid.z[yi]) :
          FLe(it[3], grid.z[yi][xi])

\* C8: once a malformed message has been received, every valid event of a
\* later message is in its buffer and is shown by get_heatmap on its symbol
\* for every window that covers its timestamp.
C8_FaultIsolation ==
    (sawBad /\ last.msg /\ ~last.raised) =>
       \A i \in 1..Len(last.added) :
          LET key == last.added[i][1]
              it  == last.added[i][2]
          IN  /\ key \in DOMAIN _BUFS
              /\ it \in Range(_BUFS[key])
              /\ \A m \in QueryMinutes : \A b \in QueryBins :
                    (now - m * MINUTE_MS <= it[1] /\ it[1] <= now) =>
                       Shows(GetHeatmap(_BUFS, key, m, b, now), it)

\* C9: every stored event has a non-empty symbol, price > 0 and
\* notional > 0, and in BUF quantity > 0 and notional = price * quantity.
C9_PositiveEvents ==
    /\ \A k \in DOMAIN _BUFS :
          /\ k # ""
          /\ \A i \in 1..Len(_BUFS[k]) :
                FGt0(_BUFS[k][i][2]) /\ FGt0(_BUFS[k][i][3])
    /\ \A i \in 1..Len(BUF) :
          /\ BUF[i][2] # ""
          /\ FGt0(BUF[i][4]) /\ FGt0(BUF[i][5])
          /\ BUF[i][6] = FMul(BUF[i][4], BUF[i][5])

\* C10: every key of _BUFS is in upper case, so that get_heatmap, which
\* looks up the upper case of its argument, finds the buffer of every
\* symbol the feed delivered.
C10_UppercaseKeys == \A k \in DOMAIN _BUFS : k = Upper(k)

\* the three shapes in which the feed can deliver the one event e
Shapes(e) == {Msg("bare", <<e>>), Msg("wrapped", <<e>>), Msg("list", <<e>>)}

\* C11: each consumer stores a valid event in whichever of the three shapes
\* it arrives: _consume_force_orders appends a print for it, and liq_consumer
\* and on_message append a row for it.
C11_AllShapesStored ==
    \A e \in ValidEnvs : \A m \in Shapes(e) :
       /\ Len(HandleMessage(_BUFS, m, now).added) = 1
       /\ LiqDecode(m, now).store
       /\ AppHandle(<<>>, m, now, LIQ_WINDOW_DEFAULT) # <<>>

\* the prints _consume_force_orders appends for the one event e
Stored(e) == HandleMessage(_BUFS, Msg("bare", <<e>>), now).added

\* the text forms of zero
ZeroTexts == {"0", "0.0", "0.00"}

\* C12: the stored price is `ap` when it is present and not zero, and the
\* order price `p` otherwise: an event with ap = "101" is stored at 101, and
\* an event whose ap is missing, the number 0 or any text form of zero is
\* stored at its order price 100.
C12_PriceSelection ==
    /\ Stored(WithAp(Str("101"))) =
          <<<<"BTCUSDT", <<T_RECENT, Fin(101), Fin(101), "BUY">>>>>>
    /\ \A ap \in {Absent, Num(0)} \cup {Str(z) : z \in ZeroTexts} :
          Stored(WithAp(ap)) =
             <<<<"BTCUSDT", <<T_RECENT, Fin(100), Fin(100), "BUY">>>>>>

(***************************************************************************)
(* Properties of get_heatmap, on the call recorded in hq.                  *)
(***************************************************************************)
\* the stored prints of the symbol of the call
QueryBuf ==
    IF Upper(hq.symbol) \in DOMAIN _BUFS THEN _BUFS[Upper(hq.symbol)] ELSE <<>>

\* the prints of s whose timestamp is in [t - minutes, t], in stored order
RECURSIVE WindowOf(_, _, _)
WindowOf(s, minutes, t) ==
    IF s = <<>> THEN <<>>
    ELSE IF t - minutes * MINUTE_MS <= Head(s)[1] /\ Head(s)[1] <= t
         THEN <<Head(s)>> \o WindowOf(Tail(s), minutes, t)
         ELSE WindowOf(Tail(s), minutes, t)

\* the window of the call
QueryWindow == WindowOf(QueryBuf, hq.minutes, now)

RECURSIVE Reverse(_)
Reverse(s) == IF s = <<>> THEN <<>> ELSE Append(Reverse(Tail(s)), Head(s))

\* C13: the grid of a call is built from exactly the stored prints whose
\* timestamp is in [now - minutes, now]: it is the grid of the buffers with
\* every print outside that range removed, in whichever order they arrived.
C13_WindowOnly ==
    hq.asked =>
       LET inside == [k \in DOMAIN _BUFS |-> WindowOf(_BUFS[k], hq.minutes, now)]
           turned == [k \in DOMAIN _BUFS |-> Reverse(inside[k])]
       IN  /\ hq.grid = GetHeatmap(inside, hq.symbol, hq.minutes, hq.bins, now)
           /\ hq.grid = GetHeatmap(turned, hq.symbol, hq.minutes, hq.bins, now)

RECURSIVE SumCells(_)
SumCells(cells) == IF cells = <<>> THEN Fin(0)
                   ELSE FAdd(Head(cells), SumCells(Tail(cells)))

\* the notional of the prints of a sequence, summed
SumNotional(items) == SumCells([i \in 1..Len(items) |-> items[i][3]])

\* the sum of all cells of a grid, and of its column xi
GridTotal(grid) == SumCells([yi \in 1..Len(grid.z) |-> SumCells(grid.z[yi])])
ColumnTotal(grid, xi) == SumCells([yi \in 1..Len(grid.z) |-> grid.z[yi][xi]])

\* a call with at least one time bucket and one price bucket
Proper == hq.asked /\ hq.minutes >= 1 /\ hq.bins >= 1

\* C14: for minutes >= 1 and bins >= 1 the call returns a grid whose cells
\* sum to the notional of the stored prints of the symbol with a timestamp
\* in [now - minutes, now].
C14_SumPreserved ==
    Proper =>
       /\ hq.grid.err = ""
       /\ GridTotal(hq.grid) = SumNotional(QueryWindow)

\* C15: when the window is not empty and all its prints share one price,
\* the call returns a non-empty grid, and one price bucket of it holds all
\* the notional of the window.
C15_DegenerateRange ==
    ( /\ Proper
      /\ QueryWindow # <<>>
      /\ \A i \in 1..Len(QueryWindow) : QueryWindow[i][2] = QueryWindow[1][2] )
    => /\ hq.grid.err = ""
       /\ hq.grid.z # <<>>
       /\ \E xi \in 1..Len(hq.grid.x) :
              ColumnTotal(hq.grid, xi) = SumNotional(QueryWindow)

\* C16: a call raises nothing, and it returns the empty grid exactly when
\* the symbol was never seen or no stored print of it is in the window.
C16_EmptyResult ==
    hq.asked =>
       /\ hq.grid.err = ""
       /\ (hq.grid = EmptyGrid) <=> (QueryWindow = <<>>)

\* C17: a call raises no error, whatever the buffers and whatever the
\* integers minutes and bins, zero included.
C17_NeverFails == hq.asked => hq.grid.err = ""

\* C18: on a window that is not empty, z has `minutes` rows of `bins` cells,
\* x has `bins` labels in ascending order, and y has `minutes` bucket starts
\* that begin at now - minutes and go up by one minute.
C18_GridShape ==
    (Proper /\ QueryWindow # <<>>) =>
       LET g == hq.grid IN
       /\ Len(g.z) = hq.minutes
       /\ \A yi \in 1..Len(g.z) : Len(g.z[yi]) = hq.bins
       /\ Len(g.x) = hq.bins
       /\ \A i \in 1..(Len(g.x) - 1) :
              DblLt(g.x[i], g.x[i + 1])
       /\ Len(g.y) = hq.minutes
       /\ g.y[1] = now - hq.minutes * MINUTE_MS
       /\ \A i \in 1..(Len(g.y) - 1) : g.y[i + 1] - g.y[i] = MINUTE_MS

\* C19: for minutes >= 1 and bins >= 1, every print of the window is in the
\* cell z[yi][xi] of its clamped time and price indices, both in range, and
\* the cells sum to the notional of the prints the call selected: no print
\* is dropped and none is counted twice.
C19_IndexClamping ==
    (Proper /\ QueryWindow # <<>>) =>
       LET g        == hq.grid
           start_ms == now - hq.minutes * MINUTE_MS
           items    == SelectItems(QueryBuf, start_ms)
           ps       == Prices(items)
           lo       == PyMin(Head(ps), Tail(ps))
           hi       == PyMax(Head(ps), Tail(ps))
       IN  /\ g.err = ""
           /\ Len(g.z) = hq.minutes
           /\ \A yi \in 1..Len(g.z) : Len(g.z[yi]) = hq.bins
           /\ GridTotal(g) = SumNotional(items)
           /\ \A i \in 1..Len(QueryWindow) :
                 LET it == QueryWindow[i]
                     yi == TimeIndex(it[1], start_ms, hq.minutes)
                     xi == PriceIndex(it[2].v, lo.v, hi.v, hq.bins)
                 IN  /\ 0 <= yi /\ yi <= hq.minutes - 1
                     /\ 0 <= xi /\ xi <= hq.bins - 1
                     /\ FLe(it[3], g.z[yi + 1][xi + 1])

\* the prints the call selects (line 102) and their lowest and highest price
Selected == SelectItems(QueryBuf, now - hq.minutes * MINUTE_MS)
LoPrice  == LET ps == Prices(Selected) IN PyMin(Head(ps), Tail(ps)).v
HiPrice  == LET ps == Prices(Selected) IN PyMax(Head(ps), Tail(ps)).v

\* the notional of the selected prints whose price is in the set S
RECURSIVE NotionalIn(_, _)
NotionalIn(items, S) ==
    IF items = <<>> THEN Fin(0)
    ELSE IF Head(items)[2].v \in S
         THEN FAdd(Head(items)[3], NotionalIn(Tail(items), S))
         ELSE NotionalIn(Tail(items), S)

\* the prices of the selected prints
SelectedPrices == {Selected[i][2].v : i \in 1..Len(Selected)}

\* liq.heatmap: a price on an internal edge is in the bucket below the edge,
\* and the highest price is in the last bucket
LiqBoundaryRule ==
    \A b \in LiqBins : \A p \in SelectedPrices :
       /\ \A k \in 1..(b - 2) :
             LiqEdge(k, LoPrice, HiPrice, b).num = p * (b - 1) =>
                LiqCut(p, LoPrice, HiPrice, b) = k - 1
       /\ p = HiPrice => LiqCut(p, LoPrice, HiPrice, b) = b - 2

\* C20 as claimed: price bucket j of the returned grid holds the prints
\* with label j < price <= label j+1, so that a price on an internal
\* boundary is in the lower-indexed bucket; and liq.heatmap puts a price on
\* an internal edge in the lower-indexed bucket and the highest price in the
\* last one.
C20_LowerBucket ==
    (hq.asked /\ hq.grid.z # <<>>) =>
       LET x == hq.grid.x IN
       /\ \A j \in 1..Len(x) :
             ColumnTotal(hq.grid, j) =
                NotionalIn(Selected,
                   {p \in SelectedPrices :
                       /\ DblLt(x[j], DblOfInt(p))
                       /\ j < Len(x) => DblLe(DblOfInt(p), x[j + 1])})
       /\ LiqBoundaryRule

\* the step is a call with the arguments of the call before it, and the
\* buffers are after it what they were before
SameCallAgain ==
    /\ hcall.asked /\ hcall'.asked
    /\ hcall'.symbol = hcall.symbol
    /\ hcall'.minutes = hcall.minutes
    /\ hcall'.bins = hcall.bins
    /\ _BUFS' = _BUFS

\* C21 as claimed: a call with the arguments of the call before it returns
\* the grid that call returned when no write came between them.  The clock
\* is no argument of the call, so the claim covers two calls between which
\* the clock advanced.
C21_SameGridAnyClock == [][SameCallAgain => hcall'.grid = hcall.grid]_vars

\* C22 as claimed: a get_heatmap call in a reader thread completes without an
\* error whatever appends of the consumer thread interleave with its scan of
\* _BUFS[symbol].
C22_ScanCompletes == rd.pc # "raised"

\* C23 as claimed: whatever calls of start_liq_buffer were made, one after
\* another or at the same time from several threads, at most one consumer
\* thread has been started.
C23_SingleConsumer == sb.consumers <= 1

\* C24 as claimed: once cancellation has been signalled, a consumer that has
\* handled a message since then stops at its next step, and a consumer in a
\* backoff wait leaves the wait by stopping, not by reconnecting.
C24_StopObserved ==
    [][(stopReq /\ (last.msg \/ pc = "backoff")) => pc' = "exited"]_vars

\* the last n elements of s
Suffix(s, n) == SubSeq(s, Len(s) - n + 1, Len(s))

\* the prints a message appended under the key k, in the order of the appends
AddedFor(added, k) ==
    LET sel == SelectSeq(added, LAMBDA p : p[1] = k)
    IN  [i \in 1..Len(sel) |-> sel[i][2]]

\* C25: a step changes a buffer only by appending the prints accepted for its
\* key, in arrival order, and dropping from the front what exceeds the bound:
\* each buffer after the step is the longest suffix within the bound of the
\* buffer before it followed by the accepted prints, so a buffer is always a
\* contiguous suffix of the accepted sequence, an append to a full buffer
\* removes the earliest print only, and no stored print is changed or moved.
C25_OldestFirst ==
    [][/\ DOMAIN _BUFS \subseteq DOMAIN _BUFS'
       /\ \A k \in DOMAIN _BUFS' :
            LET old == IF k \in DOMAIN _BUFS THEN _BUFS[k] ELSE <<>>
                acc == old \o AddedFor(last'.added, k)
            IN  _BUFS'[k] = Suffix(acc, Min(Len(acc), BufMaxLen))]_vars

\* C25 witness: a message has just appended to a full buffer whose earliest
\* print differed from the one appended, and the buffer now ends with the
\* appended print.
C25_Witness ==
    /\ last.msg /\ last.full /\ Len(last.added) = 1
    /\ LET k == last.added[1][1] IN
       /\ Len(_BUFS[k]) = BufMaxLen
       /\ _BUFS[k][BufMaxLen] = last.added[1][2]
       /\ _BUFS[k][1] # last.added[1][2]

\* the rows of a symbol in the ring, in order
RowsOf(buf, sym) == SelectSeq(buf, LAMBDA r : r[2] = sym)

\* C26 as claimed: an append of a row of one symbol to BUF leaves the rows of
\* every other symbol as they were.
C26_PerSymbolRetention ==
    [][\A b \in {"BTCUSDT", "ETHUSDT"} :
          (BUF' # BUF /\ BUF'[Len(BUF')][2] # b) =>
              RowsOf(BUF', b) = RowsOf(BUF, b)]_vars

\* C27 as claimed: a call of liq.heatmap with bins >= 1 on a window that is
\* not empty returns `bins` labels in x and `bins` cells in every row of z.
C27_BinsBuckets ==
    (lhq.asked /\ lhq.bins >= 1 /\ lhq.grid # EmptyGrid) =>
       /\ Len(lhq.grid.x) = lhq.bins
       /\ \A yi \in 1..Len(lhq.grid.z) : Len(lhq.grid.z[yi]) = lhq.bins

\* C28: a heatmap call is a pure read: a call of ws_liq.get_heatmap leaves
\* _BUFS as it was, with the same keys (a symbol never seen gets no entry)
\* and the same prints, and a call of liq.heatmap leaves BUF as it was.
C28_PureRead ==
    [][/\ hq'.asked => _BUFS' = _BUFS
       /\ lhq'.asked => BUF' = BUF]_vars

\* C28 witness: get_heatmap has just been called for a symbol that was never
\* seen while another symbol has a buffer, and the symbol has no entry.
C28_Witness ==
    /\ hq.asked /\ Upper(hq.symbol) = "ETHUSDT"
    /\ DOMAIN _BUFS = {"BTCUSDT"}
    /\ BUF # <<>>

\* a step of liq_consumer on a message whose decoding raised keeps BUF and
\* stays in the receive loop of the same connection
LiqMessageIsolated == llast' = "raised" => (BUF' = BUF /\ lpc' = "receiving")

\* C29 as claimed: a message that raises is isolated, and the receive loop
\* is left only into the one-second wait that follows a transport failure.
C29_OnlyFailureLeaves ==
    [][/\ LiqMessageIsolated
       /\ (lpc = "receiving" /\ lpc' # "receiving") => lpc' = "sleeping"]_vars

\* C29, amended: a message that raises is isolated; the receive loop is left
\* only by a step that handles no message, either into the wait (a transport
\* failure) or straight to a new connection (the peer closed the stream
\* normally); and the wait ends in a new connection.
C29_FailureIsolated ==
    [][/\ LiqMessageIsolated
       /\ (lpc = "receiving" /\ lpc' # "receiving") =>
              (llast' = "none" /\ lpc' \in {"sleeping", "connecting"})
       /\ (lpc = "sleeping" /\ lpc' # "sleeping") => lpc' = "connecting"]_vars

\* C29 witness: a message has just raised on a connection whose ring holds
\* a row, and the consumer is still receiving.
C29_Witness == llast = "raised" /\ lpc = "receiving" /\ BUF # <<>>

====
